---- MODULE Spec2Model ----
(***************************************************************************)
(* Model of laf/names.py: the key codec (comp, decomp, decomp_full), the   *)
(* item catalog built by Names.__init__, the resolver Names.dinfo, the     *)
(* differential planner Names.request_files, the defaults of               *)
(* Names.request_init and the validator Names.check_load_dict.             *)
(*                                                                         *)
(* A Python string is a sequence of one-character strings, so that split,  *)
(* join, rstrip and format are computed character by character.  A Python  *)
(* value that may be None is a sequence of length at most one (None is     *)
(* <<>>).  An OrderedDict is a sequence of <<key, value>> pairs with       *)
(* pairwise different keys, in insertion order.                            *)
(***************************************************************************)
EXTENDS Integers, Sequences, FiniteSets, TLC

\* ---------------------------------------------------------------- bounds
\* longest component list of one requirement that a request may carry
MaxList == 2
\* most components of one key, and longest component, given to the codec
MaxComps == 2
MaxCompLen == 1

\* ------------------------------------------------------- Python strings
\* index of the first occurrence of character ch in s, 0 when absent
RECURSIVE FindFrom(_, _, _)
FindFrom(s, ch, i) ==
    IF i > Len(s) THEN 0
    ELSE IF s[i] = ch THEN i
    ELSE FindFrom(s, ch, i + 1)

Find(s, ch) == FindFrom(s, ch, 1)

\* str.split(sep) for a one-character separator: always at least one part
RECURSIVE Split(_, _)
Split(s, sep) ==
    LET i == Find(s, sep) IN
    IF i = 0 THEN <<s>>
    ELSE <<SubSeq(s, 1, i-1)>> \o Split(SubSeq(s, i+1, Len(s)), sep)

\* str.split(sep, 1): at most one split, at the first separator
Split1(s, sep) ==
    LET i == Find(s, sep) IN
    IF i = 0 THEN <<s>>
    ELSE <<SubSeq(s, 1, i-1), SubSeq(s, i+1, Len(s))>>

\* sep.join(parts)
RECURSIVE Join(_, _)
Join(sep, parts) ==
    IF Len(parts) = 0 THEN <<>>
    ELSE IF Len(parts) = 1 THEN parts[1]
    ELSE parts[1] \o sep \o Join(sep, Tail(parts))

\* str.rstrip(ch): drop every trailing ch
RECURSIVE RStrip(_, _)
RStrip(s, ch) ==
    IF Len(s) > 0 /\ s[Len(s)] = ch THEN RStrip(SubSeq(s, 1, Len(s)-1), ch)
    ELSE s

\* '{}({})'.format(a, b)
Format(a, b) == a \o <<"(">> \o b \o <<")">>

\* ---------------------------------------------------------- Python values
None == <<>>
Some(x) == <<x>>
\* truth value of an optional boolean, as "not x" sees it
Falsy(x) == x = None \/ x = Some(FALSE)

\* a requirement value: True, False, None or a list of component tuples
PyTrue == [t |-> "bool", b |-> TRUE, l |-> <<>>]
PyFalse == [t |-> "bool", b |-> FALSE, l |-> <<>>]
PyNone == [t |-> "none", b |-> FALSE, l |-> <<>>]
PyList(l) == [t |-> "list", b |-> FALSE, l |-> l]

\* ------------------------------------------------------------ OrderedDict
EmptyDict == <<>>
Keys(d) == [i \in 1..Len(d) |-> d[i][1]]
KeySet(d) == {d[i][1] : i \in 1..Len(d)}
Has(d, k) == \E i \in 1..Len(d) : d[i][1] = k
Get(d, k) == d[CHOOSE i \in 1..Len(d) : d[i][1] = k][2]
\* d[k] = v: an existing key keeps its position, a new key goes last
Put(d, k, v) ==
    IF Has(d, k)
    THEN [i \in 1..Len(d) |-> IF d[i][1] = k THEN <<k, v>> ELSE d[i]]
    ELSE Append(d, <<k, v>>)

\* ---------------------------------------------------------------- catalog
DCOMP_SEP == <<",">>

data_items_tpl == <<
    <<<<"m", "P", "0", "0", " ", "n", "o", "d", "e", "_", "a", "n", "c", "h", "o", "r">>,
      PyFalse, "arr">>,
    <<<<"m", "P", "0", "0", " ", "n", "o", "d", "e", "_", "a", "n", "c", "h", "o", "r", "_", "i", "t", "e", "m", "s">>,
      PyFalse, "arr">>,
    <<<<"m", "G", "0", "0", " ", "n", "o", "d", "e", "_", "a", "n", "c", "h", "o", "r", "_", "m", "i", "n">>,
      PyTrue, "arr">>,
    <<<<"m", "G", "0", "0", " ", "n", "o", "d", "e", "_", "a", "n", "c", "h", "o", "r", "_", "m", "a", "x">>,
      PyTrue, "arr">>,
    <<<<"m", "P", "0", "0", " ", "n", "o", "d", "e", "_", "e", "v", "e", "n", "t", "s">>,
      PyFalse, "arr">>,
    <<<<"m", "P", "0", "0", " ", "n", "o", "d", "e", "_", "e", "v", "e", "n", "t", "s", "_", "i", "t", "e", "m", "s">>,
      PyFalse, "arr">>,
    <<<<"m", "P", "0", "0", " ", "n", "o", "d", "e", "_", "e", "v", "e", "n", "t", "s", "_", "k">>,
      PyFalse, "arr">>,
    <<<<"m", "P", "0", "0", " ", "n", "o", "d", "e", "_", "e", "v", "e", "n", "t", "s", "_", "n">>,
      PyFalse, "arr">>,
    <<<<"m", "G", "0", "0", " ", "n", "o", "d", "e", "_", "s", "o", "r", "t">>,
      PyTrue, "arr">>,
    <<<<"m", "G", "0", "0", " ", "n", "o", "d", "e", "_", "s", "o", "r", "t", "_", "i", "n", "v">>,
      PyTrue, "dct">>,
    <<<<"m", "G", "0", "0", " ", "e", "d", "g", "e", "s", "_", "f", "r", "o", "m">>,
      PyTrue, "arr">>,
    <<<<"m", "G", "0", "0", " ", "e", "d", "g", "e", "s", "_", "t", "o">>,
      PyTrue, "arr">>,
    <<<<"m", "P", "0", "0", " ", "p", "r", "i", "m", "a", "r", "y", "_", "d", "a", "t", "a">>,
      PyFalse, "str">>,
    <<<<"m", "X", "n", "f">>,
      PyList(<<>>), "dct">>,
    <<<<"m", "X", "e", "f">>,
      PyList(<<>>), "dct">>,
    <<<<"m", "X", "n", "b">>,
      PyList(<<>>), "dct">>,
    <<<<"m", "X", "e", "b">>,
      PyList(<<>>), "dct">>,
    <<<<"m", "F", "n", "0">>,
      PyList(<<>>), "dct">>,
    <<<<"m", "F", "e", "0">>,
      PyList(<<>>), "dct">>,
    <<<<"m", "C", "0", "f">>,
      PyList(<<>>), "dct">>,
    <<<<"m", "C", "0", "b">>,
      PyList(<<>>), "dct">>,
    <<<<"a", "F", "n", "0">>,
      PyList(<<>>), "dct">>,
    <<<<"a", "F", "e", "0">>,
      PyList(<<>>), "dct">>,
    <<<<"a", "C", "0", "f">>,
      PyList(<<>>), "dct">>,
    <<<<"a", "C", "0", "b">>,
      PyList(<<>>), "dct">>,
    <<<<"z", "G", "0", "0", " ", "n", "o", "d", "e", "_", "s", "o", "r", "t">>,
      PyNone, "arr">>,
    <<<<"z", "G", "0", "0", " ", "n", "o", "d", "e", "_", "s", "o", "r", "t", "_", "i", "n", "v">>,
      PyNone, "dct">> >>

\* ------------------------------------------------------------- key codec
comp(dkeymin, dcomps) == Format(dkeymin, Join(DCOMP_SEP, dcomps))

comp_file(dgroup, dkind, ddir, dcomps) ==
    Format(<<dgroup, dkind, ddir>>, Join(DCOMP_SEP, dcomps))

\* (parts[0], '(' + parts[1]) when the key has a '(', else (dkey, '')
decomp(dkey) ==
    LET parts == Split1(dkey, "(") IN
    IF Len(parts) = 2 THEN <<parts[1], <<"(">> \o parts[2]>> ELSE <<dkey, <<>>>>

\* tuple(parts[0]) + (tuple(parts[1].rstrip(')').split(',')),)
\* ok is FALSE when parts[1] does not exist (IndexError); otherwise the
\* Python tuple is the characters of prefix followed by the tuple dcomps
decomp_full(dkey) ==
    LET parts == Split(dkey, "(") IN
    IF Len(parts) < 2 THEN [ok |-> FALSE, prefix |-> <<>>, dcomps |-> <<>>]
    ELSE [ok |-> TRUE, prefix |-> parts[1],
          dcomps |-> Split(RStrip(parts[2], ")"), ",")]

\* the catalog Names._data_items_def as Names.__init__ fills it
RECURSIVE BuildCatalog(_, _)
BuildCatalog(n, d) ==
    IF n > Len(data_items_tpl) THEN d
    ELSE LET dkey_raw == data_items_tpl[n][1]
             dbits == <<data_items_tpl[n][2], data_items_tpl[n][3]>>
             parts == Split(dkey_raw, " ")
             dkey == IF Len(parts) > 1
                     THEN Format(parts[1], Join(DCOMP_SEP, Tail(parts)))
                     ELSE dkey_raw
         IN BuildCatalog(n + 1, Put(d, dkey, dbits))

data_items_def == BuildCatalog(1, EmptyDict)

\* the keys of the catalog, and Names.decomp(dkey)[0] of the n-th of them
data_items_keys == KeySet(data_items_def)
data_items_occ == [n \in 1..Len(data_items_def) |-> decomp(data_items_def[n][1])[1]]

\* --------------------------------------------------------------- resolver
NoneItem == <<None, None, None, None, None>>

\* is_derived with a fault: the test names the annox origin
is_derived_annox(dorigin) == dorigin = "a"

\* dorigin == 'z', the last field of a resolved item
is_derived(dorigin) == dorigin = "z"

\* is_persistent with a fault: only the feature group is tested
is_persistent_features(dgroup) == dgroup # "F"

\* dgroup not in 'FC', the first field of a resolved item (dgroup is one
\* character)
is_persistent(dgroup) == dgroup \notin {"F", "C"}

\* catalog_entry with a fault: the entry is looked up by the minimal key
\* alone, and the first entry of that family is taken
catalog_entry_of_family(dkey) ==
    LET dkeymin == decomp(dkey)[1]
        family == {n \in 1..Len(data_items_def) : data_items_occ[n] = dkeymin}
    IN  IF family # {}
        THEN [ok |-> TRUE,
              dbits |-> data_items_def[CHOOSE n \in family :
                                          \A m \in family : n <= m][2]]
        ELSE [ok |-> FALSE, dbits |-> <<PyNone, "">>]

\* the catalog entry dinfo reads: that of dkey, else that of its minimal
\* key; ok is FALSE when the catalog has neither (KeyError)
catalog_entry(dkey) ==
    LET dkeymin == decomp(dkey)[1] IN
    IF dkey \in data_items_keys
    THEN [ok |-> TRUE, dbits |-> Get(data_items_def, dkey)]
    ELSE IF dkeymin \in data_items_keys
    THEN [ok |-> TRUE, dbits |-> Get(data_items_def, dkeymin)]
    ELSE [ok |-> FALSE, dbits |-> <<PyNone, "">>]

\* Names.dinfo under environment e (a function from origin characters that
\* have a '{origin}_compiled_dir' setting to that setting).  ok is FALSE
\* when the Python code raises.
dinfo(dkey, e) ==
    LET known == catalog_entry(dkey).ok
        dbits == catalog_entry(dkey).dbits
        dtype == dbits[2]
        full == decomp_full(dkey)
        dorigin == full.prefix[1]
        dgroup == full.prefix[2]
        dkind == full.prefix[3]
        ddir == full.prefix[4]
        dcomps == full.dcomps
    IN  IF ~known THEN [ok |-> FALSE, val |-> NoneItem]
        ELSE IF ~full.ok \/ Len(full.prefix) # 4
             THEN [ok |-> FALSE, val |-> NoneItem]
        ELSE IF dgroup = "T" THEN [ok |-> TRUE, val |-> NoneItem]
        ELSE IF dorigin \notin DOMAIN e THEN [ok |-> FALSE, val |-> NoneItem]
        ELSE [ok |-> TRUE,
              val |-> <<Some(is_persistent(dgroup)),
                        Some(e[dorigin]),
                        Some(comp_file(dgroup, dkind, ddir, dcomps)),
                        Some(dtype),
                        Some(is_derived(dorigin))>>]

\* Names.request_init: every minimal key of the catalog with its default
request_init ==
    LET doccs == {data_items_occ[n] : n \in 1..Len(data_items_def)}
        last(docc) == CHOOSE n \in 1..Len(data_items_def) :
                        /\ data_items_occ[n] = docc
                        /\ \A m \in (n+1)..Len(data_items_def) :
                               data_items_occ[m] # docc
    IN  [docc \in doccs |-> data_items_def[last(docc)][2][1]]

\* req_items[docc] == False or req_items[docc] == None
is_off(v) == v = PyFalse \/ v = PyNone

\* the inner loop of request_files: for dcomps in req_items[docc]
RECURSIVE ResolveComps(_, _, _, _, _)
ResolveComps(dkey, l, i, acc, e) ==
    IF ~acc.ok \/ i > Len(l) THEN acc
    ELSE LET dkeyfull == comp(dkey, l[i])
             di == dinfo(dkeyfull, e)
         IN  IF di.ok
             THEN ResolveComps(dkey, l, i + 1,
                     [items |-> Put(acc.items, dkeyfull, di.val), ok |-> TRUE], e)
             ELSE [items |-> acc.items, ok |-> FALSE]

\* the outer loop of request_files: for dkey in Names._data_items_def.
\* acc.items is self.req_data_items so far; acc.ok is FALSE once an
\* exception has left the loop.
RECURSIVE ResolveFrom(_, _, _, _)
ResolveFrom(n, req, e, acc) ==
    IF ~acc.ok \/ n > Len(data_items_def) THEN acc
    ELSE LET dkey == data_items_def[n][1]
             docc == data_items_occ[n]
         IN  IF docc \notin DOMAIN req THEN ResolveFrom(n + 1, req, e, acc)
             ELSE IF req[docc] = PyTrue
             THEN LET di == dinfo(dkey, e) IN
                  IF di.ok
                  THEN ResolveFrom(n + 1, req, e,
                          [items |-> Put(acc.items, dkey, di.val), ok |-> TRUE])
                  ELSE [items |-> acc.items, ok |-> FALSE]
             ELSE IF is_off(req[docc])
             THEN ResolveFrom(n + 1, req, e, acc)
             ELSE ResolveFrom(n + 1, req, e,
                     ResolveComps(dkey, req[docc].l, 1, acc, e))

Resolve(req, e) == ResolveFrom(1, req, e, [items |-> EmptyDict, ok |-> TRUE])

\* ---------------------------------------------------- differential planner
Range(s) == {s[i] : i \in 1..Len(s)}

\* clear_test with a fault: the comparison of the parameters is left out;
\* the test for a key that is gone is left out
clear_test_absent_only(old_data_items, new_data_items, dkey) ==
    ~Has(new_data_items, dkey)

clear_test_changed_only(old_data_items, new_data_items, dkey) ==
    /\ Has(new_data_items, dkey)
    /\ Get(new_data_items, dkey) # Get(old_data_items, dkey)

\* dkey not in new_data_items or new_data_items[dkey] != old_data_items[dkey]
clear_test(old_data_items, new_data_items, dkey) ==
    \/ ~Has(new_data_items, dkey)
    \/ Get(new_data_items, dkey) # Get(old_data_items, dkey)

\* keep_test with a fault: the items are compared by identity ("is"), and a
\* freshly resolved item is never the prior object
keep_test_identity(old_data_items, new_data_items, dkey) ==
    /\ Has(old_data_items, dkey)
    /\ FALSE

\* dkey in old_data_items and new_data_items[dkey] == old_data_items[dkey]
keep_test(old_data_items, new_data_items, dkey) ==
    /\ Has(old_data_items, dkey)
    /\ Get(new_data_items, dkey) = Get(old_data_items, dkey)

\* load_test with a fault: the derived-only flag is not looked at
load_test_all(new_data_items, dkey) == TRUE

\* not new_data_items[dkey][-1]
load_test(new_data_items, dkey) == Falsy(Get(new_data_items, dkey)[5])

\* Plan with a fault: the load test is not under the else of the keep test
Plan_load_kept(old_data_items, new_data_items) ==
    LET Clear(dkey) == clear_test(old_data_items, new_data_items, dkey)
        Keep(dkey) == keep_test(old_data_items, new_data_items, dkey)
        Load(dkey) == load_test(new_data_items, dkey)
    IN  [clear |-> SelectSeq(Keys(old_data_items), Clear),
         keep |-> SelectSeq(Keys(new_data_items), Keep),
         load |-> SelectSeq(Keys(new_data_items), Load)]

\* Plan with a fault: the loop for clear goes over the keys of the new
\* mapping, and so finds the changed keys alone
Plan_clear_of_new(old_data_items, new_data_items) ==
    LET Clear(dkey) == /\ Has(old_data_items, dkey)
                       /\ Get(new_data_items, dkey) # Get(old_data_items, dkey)
        Keep(dkey) == keep_test(old_data_items, new_data_items, dkey)
        Load(dkey) == /\ ~keep_test(old_data_items, new_data_items, dkey)
                      /\ load_test(new_data_items, dkey)
    IN  [clear |-> SelectSeq(Keys(new_data_items), Clear),
         keep |-> SelectSeq(Keys(new_data_items), Keep),
         load |-> SelectSeq(Keys(new_data_items), Load)]

\* Plan with a fault: a key to clear is put in front of the list, not at
\* its end
Plan_clear_in_front(old_data_items, new_data_items) ==
    LET Clear(dkey) == clear_test(old_data_items, new_data_items, dkey)
        Keep(dkey) == keep_test(old_data_items, new_data_items, dkey)
        Load(dkey) == /\ ~keep_test(old_data_items, new_data_items, dkey)
                      /\ load_test(new_data_items, dkey)
        cleared == SelectSeq(Keys(old_data_items), Clear)
    IN  [clear |-> [i \in 1..Len(cleared) |-> cleared[Len(cleared) + 1 - i]],
         keep |-> SelectSeq(Keys(new_data_items), Keep),
         load |-> SelectSeq(Keys(new_data_items), Load)]

\* the three lists request_files returns for the prior and the new mapping
Plan(old_data_items, new_data_items) ==
    LET Clear(dkey) == clear_test(old_data_items, new_data_items, dkey)
        Keep(dkey) == keep_test(old_data_items, new_data_items, dkey)
        Load(dkey) == /\ ~keep_test(old_data_items, new_data_items, dkey)
                      /\ load_test(new_data_items, dkey)
    IN  [clear |-> SelectSeq(Keys(old_data_items), Clear),
         keep |-> SelectSeq(Keys(new_data_items), Keep),
         load |-> SelectSeq(Keys(new_data_items), Load)]

NoPlan == [clear |-> <<>>, keep |-> <<>>, load |-> <<>>]

\* ------------------------------------------------------------ the inputs
mG00 == <<"m", "G", "0", "0">>
mXnf == <<"m", "X", "n", "f">>
mFn0 == <<"m", "F", "n", "0">>
aFn0 == <<"a", "F", "n", "0">>
zG00 == <<"z", "G", "0", "0">>

\* component tuples a caller asks features by: ('a','b'), ('a,b',), ('c',)
FeatComps == { << <<"a">>, <<"b">> >>, << <<"a", ",", "b">> >>, << <<"c">> >> }

\* the sequences of at most n elements of S
RECURSIVE SeqsUpTo(_, _)
SeqsUpTo(S, n) ==
    IF n = 0 THEN {<<>>}
    ELSE LET shorter == SeqsUpTo(S, n - 1) IN
         shorter \cup {Append(l, c) : l \in {s \in shorter : Len(s) = n - 1},
                                      c \in S}

FeatLists == SeqsUpTo(FeatComps, MaxList)

With(req, docc, v) == [k \in DOMAIN req \cup {docc} |->
                          IF k = docc THEN v ELSE req[k]]

\* the requirement mappings of the calls: the defaults of request_init with
\* the caller's selections laid over them (feature lists; everything off;
\* xml identifiers, graph items and annox features asked for), and a
\* hand-made mapping that lacks most keys and asks for the derived items
ReqChoices ==
    {With(request_init, mFn0, PyList(l)) : l \in FeatLists}
    \cup {With(request_init, mG00, PyFalse),
          With(request_init, mXnf, PyTrue),
          With(request_init, mG00, PyList(<< << <<"c">> >> >>)),
          With(request_init, aFn0, PyList(<< << <<"c">> >> >>)),
          (mG00 :> PyTrue) @@ (zG00 :> PyTrue)}

\* the environments the settings provider installs: a source with an annox,
\* and another source without annox (no a_compiled_dir)
EnvSettings ==
    { ("m" :> "s1/m") @@ ("a" :> "s1/a") @@ ("z" :> "s1/z"),
      ("m" :> "s2/m") @@ ("z" :> "s2/z") }

\* Resolve tabulated over the inputs of the calls
Resolved == [req \in ReqChoices, e \in EnvSettings |-> Resolve(req, e)]

\* the inputs of the codec: minimal keys, and component tuples of at most
\* MaxComps strings of at most MaxCompLen characters
MinKeys == {mFn0, mXnf, zG00}
CompChars == {"a", ",", ")"}

CompStrings == SeqsUpTo(CompChars, MaxCompLen)
CompTuples == SeqsUpTo(CompStrings, MaxComps)

\* ------------------------------------------------------------------ state
VARIABLES req_data_items, _old_data_items, env, dkeys, status
VARIABLES req_items, call_env, calls, repeat, stale, scen, loaded, clean
VARIABLES k_min, k_comps, k_key, k_dec, k_full, k_pc
VARIABLES load_dict, outcome, v_pc
VARIABLES d_key, d_item, d_pc
VARIABLES u_req, heap, u_pc
VARIABLES other, hist

\* req_data_items   self.req_data_items
\* _old_data_items  self._old_data_items
\* env              self.env, restricted to the compiled directories
\* dkeys            what the last request_files call returned
\* status           "new", or how the last call ended: "ok" or "error"
\* the history of the calls, kept for the statements about them:
\* req_items        the argument of the last request_files call
\* call_env         self.env at the last request_files call
\* calls            how many calls there were: "none", "one", "many"
\* repeat           the last call repeated the argument and the environment
\*                  of the call before it, which had returned
\* stale            at the last call the prior mapping held a key that the
\*                  current mapping of then did not hold
\* scen             the stage of the load, keep, clear scenario (0: not in it)
\* loaded           the keys a loader holds that, after every call that
\*                  returns, drops the keys of clear and then takes in the
\*                  keys of load; followed as long as no call has raised
\* clean            no call has raised so far
\* the codec, applied to one input:
\* k_min, k_comps   the minimal key and the components given to comp
\* k_key            comp(k_min, k_comps)
\* k_dec, k_full    decomp(k_key) and decomp_full(k_key)
\* k_pc             "input", "composed", "done", or "malformed" when k_key
\*                  is a key that was not composed
\* the validator, applied to one input:
\* load_dict        the load specification given to check_load_dict
\* outcome          how check_load_dict ended, and the lines of its message
\* v_pc             "input", "done"
\* the resolver of one key, applied to one input:
\* d_key            the key given to dinfo
\* d_item           what dinfo returned, or that it raised
\* d_pc             "input", "done"
\* the requirement mapping of the caller and the list objects:
\* u_req            the caller's req_items: for each minimal key the type of
\*                  its value, its truth value, and for a list the object
\* heap             the contents of the list objects: those of the catalog
\*                  defaults and those that request_init made
\* u_pc             "none", "init" after request_init, "changed" after the
\*                  caller changed a value
\* a second instance of Names, next to the one of the variables above:
\* other            its req_data_items, _old_data_items and env, and the
\*                  dkeys and the status of its last request_files call
\* hist             the arguments of the request_files calls so far, on the
\*                  first instance (hist[1]) and on the second (hist[2])

engine == <<req_data_items, _old_data_items, env, dkeys, status, req_items,
            call_env, calls, repeat, stale, scen, loaded, clean>>
codec == <<k_min, k_comps, k_key, k_dec, k_full, k_pc>>
validator == <<load_dict, outcome, v_pc>>
lookup == <<d_key, d_item, d_pc>>
defaults == <<u_req, heap, u_pc>>
others == <<validator, lookup, defaults>>
second == <<other, hist>>
vars == <<engine, codec, others, second>>

\* Names.__init__: both mappings empty
InitEngine ==
    /\ req_data_items = EmptyDict
    /\ _old_data_items = EmptyDict
    /\ dkeys = NoPlan
    /\ status = "new"
    /\ req_items = request_init
    /\ call_env = env
    /\ calls = "none"
    /\ repeat = FALSE
    /\ stale = FALSE
    /\ scen = 0
    /\ loaded = {}
    /\ clean = TRUE

InitCodec ==
    /\ k_key = <<>>
    /\ k_dec = <<>>
    /\ k_full = [ok |-> FALSE, prefix |-> <<>>, dcomps |-> <<>>]
    /\ k_pc = "input"

InitValidator ==
    /\ outcome = [exc |-> "none", message |-> <<>>]
    /\ v_pc = "input"

InitLookup ==
    /\ d_item = [ok |-> FALSE, val |-> NoneItem]
    /\ d_pc = "input"

\* the list objects: the default of the n-th catalog entry is object n, and
\* the copy that request_init makes of it is object Len(catalog) + n
ListEntries == {n \in 1..Len(data_items_def) : data_items_def[n][2][1].t = "list"}
DefObj(n) == n
CopyObj(n) == Len(data_items_def) + n
Objects == {DefObj(n) : n \in ListEntries} \cup {CopyObj(n) : n \in ListEntries}

\* the lists of the template are empty, the caller has no mapping yet
InitDefaults ==
    /\ u_req = <<>>
    /\ heap = [o \in Objects |-> data_items_def[IF o \in ListEntries THEN o
                                    ELSE o - Len(data_items_def)][2][1].l]
    /\ u_pc = "none"

InitOthers ==
    /\ load_dict = EmptyDict
    /\ InitValidator
    /\ d_key = mFn0
    /\ InitLookup
    /\ InitDefaults

\* an instance as Names.__init__ leaves it, with environment e
Fresh(e) ==
    [req_data_items |-> EmptyDict, _old_data_items |-> EmptyDict, env |-> e,
     dkeys |-> NoPlan, status |-> "new"]

\* no second instance is in use: one that was never called stands for it
InitSecond ==
    /\ other = Fresh(CHOOSE e \in EnvSettings : DOMAIN e = {"m", "a", "z"})
    /\ hist = <<<<>>, <<>>>>

Init ==
    /\ env \in EnvSettings
    /\ InitEngine
    /\ k_min = mFn0
    /\ k_comps = <<>>
    /\ InitCodec
    /\ InitOthers
    /\ InitSecond

\* the settings provider replaces the environment
SetEnv(e) ==
    /\ e # env
    /\ env' = e
    /\ UNCHANGED <<req_data_items, _old_data_items, dkeys, status, req_items,
                   call_env, calls, repeat, stale, scen, loaded, clean>>
    /\ UNCHANGED codec
    /\ UNCHANGED others
    /\ UNCHANGED second

\* the loader after a call that returned: the keys held without those of
\* clear, and with those of load
Consume(held, lists) == (held \ Range(lists.clear)) \cup Range(lists.load)

\* the stage of the scenario after a call with req: a first call that asks
\* for the graph items alone, the same call again, then the call with the
\* graph items switched off
OnlyGraph(req) ==
    /\ mG00 \in DOMAIN req
    /\ req[mG00] = PyTrue
    /\ \A docc \in DOMAIN req \ {mG00} : is_off(req[docc]) \/ req[docc] = PyList(<<>>)

Stage(req, ok) ==
    IF ~ok THEN 0
    ELSE IF calls = "none" /\ OnlyGraph(req) THEN 1
    ELSE IF scen = 1 /\ req = req_items /\ env = call_env THEN 2
    ELSE IF scen = 2 /\ req = With(req_items, mG00, PyFalse) /\ env = call_env THEN 3
    ELSE 0

\* request_files with a fault: the prior mapping is updated with the
\* current one instead of replaced by it
RECURSIVE Update(_, _)
Update(d, more) ==
    IF Len(more) = 0 THEN d
    ELSE Update(Put(d, more[1][1], more[1][2]), Tail(more))

request_files_merge(req) ==
    \E r \in {Resolved[req, env]} :
    /\ _old_data_items' = Update(_old_data_items, req_data_items)
    /\ req_data_items' = r.items
    /\ IF r.ok
       THEN /\ dkeys' = Plan(Update(_old_data_items, req_data_items), r.items)
            /\ status' = "ok"
       ELSE /\ dkeys' = NoPlan
            /\ status' = "error"
    /\ req_items' = req
    /\ call_env' = env
    /\ calls' = IF calls = "none" THEN "one" ELSE "many"
    /\ repeat' = (status = "ok" /\ req = req_items /\ env = call_env)
    /\ stale' = (KeySet(_old_data_items) \ KeySet(req_data_items) # {})
    /\ scen' = Stage(req, r.ok)
    /\ loaded' = IF clean /\ r.ok THEN Consume(loaded, dkeys') ELSE {}
    /\ clean' = (clean /\ r.ok)
    /\ UNCHANGED env
    /\ UNCHANGED codec
    /\ UNCHANGED others

\* self.request_files(req) on the first instance: the whole call, also when
\* it raises part-way.  Resolved[req, env] is Resolve(req, env).
request_files(req) ==
    \E r \in {Resolved[req, env]} :
    /\ _old_data_items' = req_data_items
    /\ req_data_items' = r.items
    /\ IF r.ok
       THEN /\ dkeys' = Plan(req_data_items, r.items)
            /\ status' = "ok"
       ELSE /\ dkeys' = NoPlan
            /\ status' = "error"
    /\ req_items' = req
    /\ call_env' = env
    /\ calls' = IF calls = "none" THEN "one" ELSE "many"
    /\ repeat' = (status = "ok" /\ req = req_items /\ env = call_env)
    /\ stale' = (KeySet(_old_data_items) \ KeySet(req_data_items) # {})
    /\ scen' = Stage(req, r.ok)
    /\ loaded' = IF clean /\ r.ok THEN Consume(loaded, dkeys') ELSE {}
    /\ clean' = (clean /\ r.ok)
    /\ UNCHANGED env
    /\ UNCHANGED codec
    /\ UNCHANGED others

Next ==
    \/ \E e \in EnvSettings : SetEnv(e)
    \/ \E req \in ReqChoices : request_files(req) /\ UNCHANGED second

Spec == Init /\ [][Next]_vars

\* ---------------------------------------------------- the codec on its own
Compose ==
    /\ k_pc = "input"
    /\ k_key' = comp(k_min, k_comps)
    /\ k_pc' = "composed"
    /\ UNCHANGED <<k_min, k_comps, k_dec, k_full>>
    /\ UNCHANGED engine
    /\ UNCHANGED others
    /\ UNCHANGED second

Decompose ==
    /\ k_pc = "composed"
    /\ k_dec' = decomp(k_key)
    /\ k_full' = decomp_full(k_key)
    /\ k_pc' = "done"
    /\ UNCHANGED <<k_min, k_comps, k_key>>
    /\ UNCHANGED engine
    /\ UNCHANGED others
    /\ UNCHANGED second

\* keys that are not composed by comp: the composed key without its first
\* character (three prefix characters), and without its last character
Malformed(dkey) ==
    IF Len(dkey) = 0 THEN {}
    ELSE {Tail(dkey), SubSeq(dkey, 1, Len(dkey) - 1)}

\* decomp and decomp_full are called with a key that comp did not make
DecomposeMalformed(dkey) ==
    /\ k_pc = "composed"
    /\ k_key' = dkey
    /\ k_dec' = decomp(dkey)
    /\ k_full' = decomp_full(dkey)
    /\ k_pc' = "malformed"
    /\ UNCHANGED <<k_min, k_comps>>
    /\ UNCHANGED engine
    /\ UNCHANGED others
    /\ UNCHANGED second

InitCodecInputs ==
    /\ env \in EnvSettings
    /\ InitEngine
    /\ k_min \in MinKeys
    /\ k_comps \in CompTuples
    /\ InitCodec
    /\ InitOthers
    /\ InitSecond

NextCodec ==
    \/ Compose
    \/ Decompose
    \/ \E dkey \in Malformed(k_key) : DecomposeMalformed(dkey)

SpecCodec == InitCodecInputs /\ [][NextCodec]_vars

\* ------------------------------------------------- the load-spec validator
\* A value of a load specification: t is its Python type, n its number (of
\* a bool: 0 or 1), items the <<key, value>> pairs of a mapping in insertion
\* order, or the elements of a list, each paired with LdNone.
LdNone == [t |-> "none", n |-> 0, items |-> <<>>]
LdBool(b) == [t |-> "bool", n |-> IF b THEN 1 ELSE 0, items |-> <<>>]
LdInt(n) == [t |-> "int", n |-> n, items |-> <<>>]
LdStr == [t |-> "str", n |-> 0, items |-> << <<"x", LdNone>> >>]
LdList(elems) == [t |-> "list", n |-> 0,
                  items |-> [i \in 1..Len(elems) |-> <<elems[i], LdNone>>]]
LdDict(items) == [t |-> "dict", n |-> 0, items |-> items]
LdOrderedDict(items) == [t |-> "odict", n |-> 0, items |-> items]

load_dict_keys == {"features", "xmlids", "primary", "prepare"}
load_dict_subkeys == {"node", "edge"}

\* for x in v: the keys of a mapping, the elements of a list, the characters
\* of a string; ok is FALSE when v is not iterable (TypeError)
Iter(v) ==
    IF v.t \in {"dict", "odict", "list", "str"}
    THEN [ok |-> TRUE, elems |-> Keys(v.items)]
    ELSE [ok |-> FALSE, elems |-> <<>>]

\* v[k] for a string k that the iteration over v gave: ok is FALSE when v is
\* a list or a string (TypeError: indices must be integers)
Index(v, k) ==
    IF v.t \in {"dict", "odict"}
    THEN [ok |-> TRUE, val |-> Get(v.items, k)]
    ELSE [ok |-> FALSE, val |-> LdNone]

\* val in {False, True}: a set lookup by hash and equality, so 0 and 1 are
\* in the set, and an unhashable value raises TypeError
in_kind_types(val) ==
    IF val.t \in {"list", "dict", "odict"} THEN "TypeError"
    ELSE IF val.t = "bool" \/ (val.t = "int" /\ val.n \in {0, 1}) THEN "in"
    ELSE "out"

\* acc: the list errors so far, and exc = "TypeError" once the call is left
Report(acc, line) == [exc |-> acc.exc, errors |-> Append(acc.errors, line)]
Raise(acc) == [exc |-> "TypeError", errors |-> acc.errors]

\* the loop over the subkeys under 'xmlids'
RECURSIVE check_xmlids(_, _, _, _)
check_xmlids(v, subkeys, i, acc) ==
    IF acc.exc # "none" \/ i > Len(subkeys) THEN acc
    ELSE LET subkey == subkeys[i] IN
         IF subkey \notin load_dict_subkeys
         THEN check_xmlids(v, subkeys, i + 1,
                  Report(acc, <<"subkey", "xmlids", "", subkey>>))
         ELSE LET val == Index(v, subkey) IN
              IF ~val.ok THEN Raise(acc)
              ELSE IF in_kind_types(val.val) = "TypeError" THEN Raise(acc)
              ELSE IF in_kind_types(val.val) = "out"
              THEN check_xmlids(v, subkeys, i + 1,
                       Report(acc, <<"value", "xmlids", "", subkey>>))
              ELSE check_xmlids(v, subkeys, i + 1, acc)

\* the loop over the subkeys of one namespace under 'features'
RECURSIVE check_namespace(_, _, _, _, _)
check_namespace(namespace, v, subkeys, i, acc) ==
    IF acc.exc # "none" \/ i > Len(subkeys) THEN acc
    ELSE LET subkey == subkeys[i] IN
         IF subkey \notin load_dict_subkeys
         THEN check_namespace(namespace, v, subkeys, i + 1,
                  Report(acc, <<"subkey", "features", namespace, subkey>>))
         ELSE LET val == Index(v, subkey) IN
              IF ~val.ok THEN Raise(acc)
              ELSE IF val.val.t # "list"
              THEN check_namespace(namespace, v, subkeys, i + 1,
                       Report(acc, <<"list", "features", namespace, subkey>>))
              ELSE check_namespace(namespace, v, subkeys, i + 1, acc)

\* the loop over the namespaces under 'features'
RECURSIVE check_features(_, _, _, _)
check_features(v, namespaces, i, acc) ==
    IF acc.exc # "none" \/ i > Len(namespaces) THEN acc
    ELSE LET namespace == namespaces[i]
             nsval == Index(v, namespace)
         IN  IF ~nsval.ok THEN Raise(acc)
             ELSE IF ~Iter(nsval.val).ok THEN Raise(acc)
             ELSE check_features(v, namespaces, i + 1,
                      check_namespace(namespace, nsval.val,
                                      Iter(nsval.val).elems, 1, acc))

\* the loop over the keys of load_dict
RECURSIVE check_keys(_, _, _)
check_keys(ld, i, acc) ==
    IF acc.exc # "none" \/ i > Len(ld) THEN acc
    ELSE LET key == ld[i][1]
             val == ld[i][2]
         IN  IF key \notin load_dict_keys
             THEN check_keys(ld, i + 1, Report(acc, <<"key", key, "", "">>))
             ELSE IF key = "xmlids"
             THEN IF ~Iter(val).ok THEN Raise(acc)
                  ELSE check_keys(ld, i + 1,
                           check_xmlids(val, Iter(val).elems, 1, acc))
             ELSE IF key = "primary"
             THEN IF in_kind_types(val) = "TypeError" THEN Raise(acc)
                  ELSE IF in_kind_types(val) = "out"
                  THEN check_keys(ld, i + 1,
                           Report(acc, <<"value", "primary", "", "">>))
                  ELSE check_keys(ld, i + 1, acc)
             ELSE IF key = "features"
             THEN IF ~Iter(val).ok THEN Raise(acc)
                  ELSE check_keys(ld, i + 1,
                           check_features(val, Iter(val).elems, 1, acc))
             ELSE IF val.t # "odict"
             THEN check_keys(ld, i + 1,
                      Report(acc, <<"ordered", "prepare", "", "">>))
             ELSE check_keys(ld, i + 1, acc)

\* Names.check_load_dict: exc is "none" when the call returns, "FabricError"
\* with the lines of the message after its heading, or "TypeError"
check_load_dict(ld) ==
    LET acc == check_keys(ld, 1, [exc |-> "none", errors |-> <<>>]) IN
    IF acc.exc # "none" THEN [exc |-> acc.exc, message |-> <<>>]
    ELSE IF acc.errors # <<>>
    THEN [exc |-> "FabricError", message |-> acc.errors]
    ELSE [exc |-> "none", message |-> <<>>]

\* the load specifications given to the validator: each section is absent
\* or has one of a few values, right and wrong in shape
Absent == {<<>>}
Section(key, values) == {<< <<key, v>> >> : v \in values}

BogusChoices == Absent \cup Section("bogus", {LdInt(1)})

XmlidsChoices ==
    Absent \cup Section("xmlids",
        { LdDict(<< <<"node", LdBool(TRUE)>>, <<"edge", LdBool(FALSE)>> >>),
          LdDict(<< <<"node", LdStr>> >>),
          LdDict(<< <<"foo", LdBool(TRUE)>>, <<"node", LdBool(TRUE)>> >>),
          LdDict(<< <<"node", LdInt(1)>> >>),
          LdDict(<< <<"node", LdList(<<>>)>> >>),
          LdBool(TRUE) })

PrimaryChoices ==
    Absent \cup Section("primary",
        { LdBool(TRUE), LdStr, LdNone, LdInt(1), LdList(<<>>) })

FeaturesChoices ==
    Absent \cup Section("features",
        { LdDict(<< <<"ns", LdDict(<< <<"node", LdList(<<"a">>)>> >>)>> >>),
          LdDict(<< <<"ns", LdDict(<< <<"node", LdBool(TRUE)>> >>)>> >>),
          LdDict(<< <<"ns", LdDict(<< <<"foo", LdList(<<>>)>>,
                                      <<"edge", LdStr>> >>)>>,
                    <<"n2", LdDict(<< <<"node", LdInt(1)>> >>)>> >>),
          LdDict(<< <<"ns", LdList(<<"node">>)>> >>),
          LdDict(<< <<"ns", LdBool(TRUE)>> >>) })

PrepareChoices ==
    Absent \cup Section("prepare", { LdOrderedDict(<<>>), LdDict(<<>>) })

LoadDicts ==
    { b \o x \o p \o f \o o : b \in BogusChoices, x \in XmlidsChoices,
                              p \in PrimaryChoices, f \in FeaturesChoices,
                              o \in PrepareChoices }

\* the validator is called with load_dict
Validate ==
    /\ v_pc = "input"
    /\ outcome' = check_load_dict(load_dict)
    /\ v_pc' = "done"
    /\ UNCHANGED load_dict
    /\ UNCHANGED <<engine, codec, lookup, defaults, second>>

InitValidatorInputs ==
    /\ env \in EnvSettings
    /\ InitEngine
    /\ k_min = mFn0
    /\ k_comps = <<>>
    /\ InitCodec
    /\ load_dict \in LoadDicts
    /\ InitValidator
    /\ d_key = mFn0
    /\ InitLookup
    /\ InitDefaults
    /\ InitSecond

NextValidator == Validate

SpecValidator == InitValidatorInputs /\ [][NextValidator]_vars

\* ------------------------------------------------- the resolver of one key
\* the keys given to dinfo: the catalog keys, the keys composed from the
\* component-less catalog keys, a catalog key with more components, and keys
\* of the Temp group, of an unknown family and with a short prefix
ComponentLess ==
    {data_items_def[n][1] : n \in {i \in 1..Len(data_items_def) :
                                       Find(data_items_def[i][1], "(") = 0}}

LookupKeys ==
    data_items_keys
    \cup {comp(dkey, dcomps) : dkey \in ComponentLess, dcomps \in FeatComps}
    \cup {comp(dkey, << <<"c">> >>) :
             dkey \in { comp(mG00, << <<"e", "d", "g", "e", "s", "_", "t", "o">> >>),
                        <<"m", "T", "0", "0">>, <<"q", "F", "n", "0">>,
                        <<"m", "X">> }}

\* self.dinfo(d_key)
Lookup ==
    /\ d_pc = "input"
    /\ d_item' = dinfo(d_key, env)
    /\ d_pc' = "done"
    /\ UNCHANGED d_key
    /\ UNCHANGED <<engine, codec, validator, defaults, second>>

InitLookupInputs ==
    /\ env \in EnvSettings
    /\ InitEngine
    /\ k_min = mFn0
    /\ k_comps = <<>>
    /\ InitCodec
    /\ load_dict = EmptyDict
    /\ InitValidator
    /\ d_key \in LookupKeys
    /\ InitLookup
    /\ InitDefaults
    /\ InitSecond

NextLookup == Lookup

SpecLookup == InitLookupInputs /\ [][NextLookup]_vars

\* ------------------------------------------- the defaults of the requests
\* the last catalog entry of a minimal key: the one whose default
\* request_init leaves in req_items
LastEntry(docc) ==
    CHOOSE n \in 1..Len(data_items_def) :
        /\ data_items_occ[n] = docc
        /\ \A m \in (n+1)..Len(data_items_def) : data_items_occ[m] # docc

\* docc_def.copy() with a fault: the list of the catalog itself is handed out
list_copy_alias(n) == DefObj(n)

\* docc_def.copy(): a new list object
list_copy(n) == CopyObj(n)

\* the requirement mapping that u_req stands for, lists by their contents
Deref(req, h) ==
    [docc \in DOMAIN req |->
        IF req[docc].t = "list" THEN PyList(h[req[docc].obj])
        ELSE [t |-> req[docc].t, b |-> req[docc].b, l |-> <<>>]]

\* self.request_init(req_items): the mapping is emptied and gets, for every
\* catalog entry in turn, the default of the entry under its minimal key, a
\* list default as a copy
RequestInit ==
    /\ u_req' = [docc \in {data_items_occ[n] : n \in 1..Len(data_items_def)} |->
                    LET n == LastEntry(docc)
                        docc_def == data_items_def[n][2][1]
                    IN  IF docc_def.t = "list"
                        THEN [t |-> "list", b |-> FALSE, obj |-> list_copy(n)]
                        ELSE [t |-> docc_def.t, b |-> docc_def.b, obj |-> 0]]
    /\ heap' = [o \in Objects |->
                    IF o \in {CopyObj(n) : n \in ListEntries}
                    THEN heap[DefObj(o - Len(data_items_def))]
                    ELSE heap[o]]
    /\ u_pc' = "init"
    /\ UNCHANGED <<engine, codec, validator, lookup, second>>

\* the components the caller asks features by in this part
UserComps == { << <<"a">>, <<"b">> >>, << <<"c">> >> }

\* the caller appends a component tuple to the list req_items['mFn0']
UserAppend(dcomps) ==
    /\ u_pc # "none"
    /\ Len(heap[u_req[mFn0].obj]) < MaxList
    /\ heap' = [heap EXCEPT ![u_req[mFn0].obj] = Append(@, dcomps)]
    /\ u_pc' = "changed"
    /\ UNCHANGED u_req
    /\ UNCHANGED <<engine, codec, validator, lookup, second>>

\* the caller calls self.request_files(req_items) with its mapping
UserRequestFiles ==
    /\ u_pc # "none"
    /\ Deref(u_req, heap) \in ReqChoices
    /\ request_files(Deref(u_req, heap))
    /\ UNCHANGED second

NextDefaults ==
    \/ RequestInit
    \/ \E dcomps \in UserComps : UserAppend(dcomps)
    \/ UserRequestFiles

SpecDefaults == Init /\ [][NextDefaults]_vars

\* --------------------------------------------------------- two instances
\* most calls on one instance
MaxCalls == 2

\* the requirement mappings of the calls on the two instances: the defaults,
\* the defaults with a feature, and the defaults with a key that fails
TwoReqs ==
    {With(request_init, mFn0, PyList(<<>>)),
     With(request_init, mFn0, PyList(<< << <<"c">> >> >>)),
     With(request_init, mXnf, PyTrue)}

\* self.request_files(req) on the first instance
FirstRequestFiles(req) ==
    /\ Len(hist[1]) < MaxCalls
    /\ request_files(req)
    /\ hist' = [hist EXCEPT ![1] = Append(@, req)]
    /\ UNCHANGED other

\* request_files_other with a fault: req_data_items is an attribute of the
\* class, as _data_items_def is, and so the one of the first instance
request_files_other_shared(req) ==
    \E r \in {Resolved[req, other.env]} :
    /\ Len(hist[2]) < MaxCalls
    /\ other' = [other EXCEPT
                    !._old_data_items = req_data_items,
                    !.req_data_items = r.items,
                    !.dkeys = IF r.ok THEN Plan(req_data_items, r.items)
                              ELSE NoPlan,
                    !.status = IF r.ok THEN "ok" ELSE "error"]
    /\ hist' = [hist EXCEPT ![2] = Append(@, req)]
    /\ UNCHANGED <<engine, codec, others>>

\* self.request_files(req) on the second instance
request_files_other(req) ==
    \E r \in {Resolved[req, other.env]} :
    /\ Len(hist[2]) < MaxCalls
    /\ other' = [other EXCEPT
                    !._old_data_items = other.req_data_items,
                    !.req_data_items = r.items,
                    !.dkeys = IF r.ok THEN Plan(other.req_data_items, r.items)
                              ELSE NoPlan,
                    !.status = IF r.ok THEN "ok" ELSE "error"]
    /\ hist' = [hist EXCEPT ![2] = Append(@, req)]
    /\ UNCHANGED <<engine, codec, others>>

\* Names(...) is constructed once more, with environment e, and takes the
\* place of the second instance
Construct(e) ==
    /\ hist[2] # <<>>
    /\ other' = Fresh(e)
    /\ hist' = [hist EXCEPT ![2] = <<>>]
    /\ UNCHANGED <<engine, codec, others>>

InitTwo ==
    /\ env \in EnvSettings
    /\ InitEngine
    /\ k_min = mFn0
    /\ k_comps = <<>>
    /\ InitCodec
    /\ InitOthers
    /\ other \in {Fresh(e) : e \in EnvSettings}
    /\ hist = <<<<>>, <<>>>>

NextTwo ==
    \/ \E req \in TwoReqs : FirstRequestFiles(req)
    \/ \E req \in TwoReqs : request_files_other(req)
    \/ \E e \in EnvSettings : Construct(e)

SpecTwo == InitTwo /\ [][NextTwo]_vars

\* ------------------------------------------------------------- the claims
Old == _old_data_items
New == req_data_items
Cleared == Range(dkeys.clear)
Kept == Range(dkeys.keep)
Loaded == Range(dkeys.load)
\* the keys of both mappings whose resolved items differ in some field
Changed == {dkey \in KeySet(Old) \cap KeySet(New) : Get(New, dkey) # Get(Old, dkey)}
Unchanged == (KeySet(Old) \cap KeySet(New)) \ Changed

\* C1: when request_files is called twice in succession with the same
\* requirement mapping and an unchanged environment, the second call returns
\* clear = [], load = [] and keep = all the keys resolved, the derived ones
\* included.
C1_IdempotentKeep ==
    (status = "ok" /\ repeat) =>
        /\ dkeys.clear = <<>>
        /\ dkeys.load = <<>>
        /\ Kept = KeySet(New)

\* a repeated call that keeps main and derived keys
C1_Witness ==
    /\ status = "ok" /\ repeat
    /\ \E dkey \in Kept : dkey[1] = "z"
    /\ \E dkey \in Kept : dkey[1] = "m"

\* C2: a key that the prior and the new resolution both hold with identical
\* resolution parameters is in keep, and in neither load nor clear.
C2_NoReloadOfUnchanged ==
    status = "ok" =>
        \A dkey \in Unchanged :
            dkey \in Kept /\ dkey \notin Loaded /\ dkey \notin Cleared

\* a call that kept an unchanged key while it loaded another
C2_Witness ==
    /\ status = "ok"
    /\ Unchanged # {}
    /\ Loaded # {}

\* C3: clear is exactly the keys of the prior resolution that the new one
\* lacks or holds with a differing field; no key of the new resolution alone
\* is in clear; the first call of a fresh instance clears nothing.
C3_ClearExact ==
    status = "ok" =>
        /\ Cleared = (KeySet(Old) \ KeySet(New)) \cup Changed
        /\ Cleared \cap (KeySet(New) \ KeySet(Old)) = {}
        /\ calls = "one" => dkeys.clear = <<>>

\* a call that cleared a key whose storage location had changed, and a key
\* that is no longer asked for
C3_Witness ==
    /\ status = "ok"
    /\ \E dkey \in Cleared \cap Changed : Get(New, dkey)[2] # Get(Old, dkey)[2]
    /\ Cleared \ KeySet(New) # {}

\* C4: load is exactly the keys of the new resolution that are not in keep
\* and whose is_derived_only flag is false; no key of origin 'z' is in load.
C4_LoadExact ==
    status = "ok" =>
        /\ Loaded = {dkey \in KeySet(New) \ Kept : Get(New, dkey)[5] = Some(FALSE)}
        /\ \A dkey \in Loaded : dkey[1] # "z"

\* a first call that resolved new derived keys and loaded the other keys
C4_Witness ==
    /\ status = "ok"
    /\ calls = "one"
    /\ \E dkey \in KeySet(New) \ Kept : dkey[1] = "z"
    /\ Loaded # {}

\* C5 as stated: every key of the prior or the new resolution is in exactly
\* one of clear, keep, load.
C5_Partition ==
    status = "ok" =>
        \A dkey \in KeySet(Old) \cup KeySet(New) :
            \/ dkey \in Cleared /\ dkey \notin Kept /\ dkey \notin Loaded
            \/ dkey \notin Cleared /\ dkey \in Kept /\ dkey \notin Loaded
            \/ dkey \notin Cleared /\ dkey \notin Kept /\ dkey \in Loaded

\* C5 amended: keep is disjoint from clear and from load; a key is in both
\* clear and load exactly when both resolutions hold it with differing
\* parameters and it is not derived; a key of the two resolutions is in no
\* list exactly when it is a derived key of the new resolution that the
\* prior one lacks; the lists hold no other key.
C5_Classification ==
    status = "ok" =>
        /\ Kept \cap (Cleared \cup Loaded) = {}
        /\ Cleared \cap Loaded = {dkey \in Changed : Get(New, dkey)[5] = Some(FALSE)}
        /\ (KeySet(Old) \cup KeySet(New)) \ (Cleared \cup Kept \cup Loaded)
               = {dkey \in KeySet(New) \ KeySet(Old) : Get(New, dkey)[5] = Some(TRUE)}
        /\ Cleared \cup Kept \cup Loaded \subseteq KeySet(Old) \cup KeySet(New)

\* a call that cleared and reloaded a changed key and left a new derived key
\* out of every list
C5_Witness ==
    /\ status = "ok"
    /\ Cleared \cap Loaded # {}
    /\ KeySet(New) \ (Cleared \cup Kept \cup Loaded) # {}

\* C6 as stated: a request_files call that fails part-way leaves
\* req_data_items and _old_data_items as they were before the call.
C6_NoPartialMutation ==
    [][(env' = env /\ status' = "error") =>
           /\ req_data_items' = req_data_items
           /\ _old_data_items' = _old_data_items]_vars

\* C7: the prior mapping a call uses is exactly the resolution computed for
\* the call before it (the empty mapping at the first call), and a key that
\* only an earlier resolution held is in neither clear nor keep.
C7_DestructiveReplacement ==
    [][(env' = env /\ status' = "ok" /\ status # "error") =>
           /\ _old_data_items' = req_data_items
           /\ status = "new" => _old_data_items' = EmptyDict
           /\ status = "ok" =>
                  _old_data_items' = Resolved[req_items, call_env].items
           /\ \A dkey \in KeySet(_old_data_items) \ KeySet(req_data_items) :
                  dkey \notin Range(dkeys'.clear) \cup Range(dkeys'.keep)]_vars

\* a third or later call, made when the resolution before the last one held
\* a key that the last one had dropped
C7_Witness ==
    /\ status = "ok"
    /\ calls = "many"
    /\ stale
    /\ Old # EmptyDict

\* the requirement mappings A and B differ in the component list of one
\* family, and in nothing else
OneListChanged(A, B) ==
    /\ DOMAIN A = DOMAIN B
    /\ \E fam \in DOMAIN A :
           /\ A[fam].t = "list" /\ B[fam].t = "list"
           /\ A[fam].l # B[fam].l
           /\ \A docc \in DOMAIN A \ {fam} : A[docc] = B[docc]

\* C8 as stated: after request_files(A), request_files(B) with B different
\* from A in one family's component list returns in clear the keys built
\* from the components of A's list that B's list lacks, in load the keys
\* built from the components of B's list that A's list lacks, and in keep
\* every key that both resolve.
C8_ChangeDetection ==
    [][(/\ env' = env /\ call_env = env
        /\ status = "ok" /\ status' = "ok"
        /\ OneListChanged(req_items, req_items')) =>
           LET fam == CHOOSE docc \in DOMAIN req_items :
                          req_items[docc] # req_items'[docc]
               A == Range(req_items[fam].l)
               B == Range(req_items'[fam].l)
           IN  /\ Range(dkeys'.clear) = {comp(fam, dcomps) : dcomps \in A \ B}
               /\ Range(dkeys'.load) = {comp(fam, dcomps) : dcomps \in B \ A}
               /\ Range(dkeys'.keep) =
                      KeySet(req_data_items) \cap KeySet(req_data_items')]_vars

\* the catalog keys of the graph family, mG00(node_sort) among them
GraphKeys ==
    {data_items_def[n][1] : n \in {i \in 1..Len(data_items_def) :
                                       data_items_occ[i] = mG00}}
node_sort == comp(mG00, << <<"n", "o", "d", "e", "_", "s", "o", "r", "t">> >>)

\* C9: on a fresh instance the first call with the graph requirement true
\* returns mG00(node_sort) in load, with keep = [] and clear = []; the same
\* call again returns it in keep, with load = [] and clear = []; a third
\* call with the requirement false returns it in clear, with load = [] and
\* keep = [].
C9_Scenario ==
    /\ scen = 1 => /\ GraphKeys \subseteq Loaded
                   /\ node_sort \in Loaded
                   /\ dkeys.keep = <<>> /\ dkeys.clear = <<>>
    /\ scen = 2 => /\ GraphKeys \subseteq Kept
                   /\ node_sort \in Kept
                   /\ dkeys.load = <<>> /\ dkeys.clear = <<>>
    /\ scen = 3 => /\ GraphKeys \subseteq Cleared
                   /\ node_sort \in Cleared
                   /\ dkeys.load = <<>> /\ dkeys.keep = <<>>

\* the third call of the scenario has returned
C9_Witness ==
    /\ scen = 3
    /\ status = "ok"
    /\ node_sort \in Cleared

\* C10 as stated: decomp_full of a composed key returns the four prefix
\* characters and the components it was composed from, decomp returns the
\* minimal key first, and two composed keys are equal exactly when their
\* minimal keys and components are.
C10_RoundTrip ==
    k_pc = "done" =>
        /\ k_full.ok
        /\ k_full.prefix = k_min
        /\ k_full.dcomps = k_comps
        /\ k_dec[1] = k_min
        /\ \A dkeymin \in MinKeys, dcomps \in CompTuples :
               (comp(dkeymin, dcomps) = k_key) <=>
                   (dkeymin = k_min /\ dcomps = k_comps)

\* the keys a requirement mapping asks for: for each catalog key whose
\* minimal key has the requirement True the key itself, and for a list of
\* component tuples one composed key per tuple
Expansion(req) ==
    UNION { LET dkey == data_items_def[n][1]
                docc == data_items_occ[n]
            IN  IF docc \notin DOMAIN req THEN {}
                ELSE IF req[docc] = PyTrue THEN {dkey}
                ELSE IF req[docc].t = "list"
                THEN {comp(dkey, dcomps) : dcomps \in Range(req[docc].l)}
                ELSE {} : n \in 1..Len(data_items_def) }

\* every origin has its compiled directory in the environment
FullEnv(e) == DOMAIN e = {"m", "a", "z"}

\* C11 as stated: for every requirement mapping request_files completes, the
\* keys of the new resolution are exactly the catalog keys whose requirement
\* is true and the keys composed from the catalog keys and the components of
\* their requirement lists, and each key is mapped to dinfo of that key; the
\* component-less catalog keys with requirement true are among them.
C11_Expansion ==
    (calls # "none" /\ FullEnv(call_env)) =>
        /\ status = "ok"
        /\ KeySet(New) = Expansion(req_items)
        /\ \A dkey \in KeySet(New) :
               /\ dinfo(dkey, call_env).ok
               /\ Get(New, dkey) = dinfo(dkey, call_env).val

\* the shape rules, counted: the number of violations in a load specification
IsMapping(v) == v.t \in {"dict", "odict"}
Count(d, Bad(_, _)) == Cardinality({i \in 1..Len(d) : Bad(d[i][1], d[i][2])})
BadSubkey(subkey, val) == subkey \notin load_dict_subkeys
NotBoolean(subkey, val) == subkey \in load_dict_subkeys /\ val.t # "bool"
NotSequence(subkey, val) == subkey \in load_dict_subkeys /\ val.t # "list"

XmlidsViolations(v) ==
    IF ~IsMapping(v) THEN 1
    ELSE Count(v.items, BadSubkey) + Count(v.items, NotBoolean)

NamespaceViolations(v) ==
    IF ~IsMapping(v) THEN 1
    ELSE Count(v.items, BadSubkey) + Count(v.items, NotSequence)

RECURSIVE NamespacesViolations(_)
NamespacesViolations(d) ==
    IF Len(d) = 0 THEN 0
    ELSE NamespaceViolations(d[1][2]) + NamespacesViolations(Tail(d))

FeaturesViolations(v) ==
    IF ~IsMapping(v) THEN 1 ELSE NamespacesViolations(v.items)

SectionViolations(key, v) ==
    IF key \notin load_dict_keys THEN 1
    ELSE IF key = "xmlids" THEN XmlidsViolations(v)
    ELSE IF key = "primary" THEN (IF v.t # "bool" THEN 1 ELSE 0)
    ELSE IF key = "features" THEN FeaturesViolations(v)
    ELSE (IF v.t # "odict" THEN 1 ELSE 0)

RECURSIVE Violations(_)
Violations(ld) ==
    IF Len(ld) = 0 THEN 0
    ELSE SectionViolations(ld[1][1], ld[1][2]) + Violations(Tail(ld))

\* C12 as stated: check_load_dict returns silently exactly when the load
\* specification satisfies every shape rule, and otherwise raises one error
\* whose message has one line for every violation, whatever other violations
\* the specification holds.
C12_Aggregation ==
    v_pc = "done" =>
        IF Violations(load_dict) = 0
        THEN outcome.exc = "none"
        ELSE /\ outcome.exc = "FabricError"
             /\ Len(outcome.message) = Violations(load_dict)

\* the key has a '(' with fewer than four characters before it; the key has
\* a '(' and does not end with ')'
ShortPrefix(dkey) == Find(dkey, "(") \in 1..4
Unterminated(dkey) == Find(dkey, "(") > 0 /\ dkey[Len(dkey)] # ")"

\* C13 as stated: decomp_full fails for every key with fewer than four
\* characters before the first '(' and for every key whose component list is
\* not closed by ')'; it returns no tuple for such a key.
C13_MalformedRejected ==
    (k_pc = "malformed" /\ (ShortPrefix(k_key) \/ Unterminated(k_key))) =>
        ~k_full.ok

\* the origin and the group a key names: its first and second character
Origin(dkey) == dkey[1]
Group(dkey) == dkey[2]

C15_CatalogLookup ==
    d_pc = "done" =>
        LET dkeymin == decomp(d_key)[1] IN
        /\ (d_item.ok /\ d_key \in data_items_keys) =>
               d_item.val[4] = Some(Get(data_items_def, d_key)[2])
        /\ (d_item.ok /\ d_key \notin data_items_keys) =>
               /\ dkeymin \in data_items_keys
               /\ d_item.val[4] = Some(Get(data_items_def, dkeymin)[2])
        /\ (d_key \notin data_items_keys /\ dkeymin \notin data_items_keys) =>
               ~d_item.ok

\* dinfo resolved a key that only has its minimal key in the catalog
C15_Witness ==
    /\ d_pc = "done"
    /\ d_item.ok
    /\ d_key \notin data_items_keys
    /\ decomp(d_key)[1] \in data_items_keys
    /\ d_item.val[4] = Some("dct")

\* the keys of list keep the order they have in source, and none is twice
\* in list
InOrderOf(list, source) ==
    \A i, j \in 1..Len(list) :
        i < j => /\ Find(source, list[i]) > 0
                 /\ Find(source, list[i]) < Find(source, list[j])

\* the place in the catalog of the entry that a resolved key comes from, and
\* the place in the requested component list of the first tuple it is
\* composed from (0 when the requirement is not a list)
CatalogIndex(dkey) ==
    IF dkey \in data_items_keys THEN Find(Keys(data_items_def), dkey)
    ELSE Find(Keys(data_items_def), decomp(dkey)[1])

RequestIndex(dkey, req) ==
    LET n == CatalogIndex(dkey)
        v == req[data_items_occ[n]]
    IN  IF v.t # "list" THEN 0
        ELSE Find([i \in 1..Len(v.l) |-> comp(data_items_def[n][1], v.l[i])], dkey)

HasDuplicate(l) == \E i, j \in 1..Len(l) : i < j /\ l[i] = l[j]

\* C16: keep and load list their keys in the order of the new resolution,
\* which is the order of the catalog and, for one catalog key, of the
\* requested component list; clear lists its keys in the order of the prior
\* resolution; no list holds a key twice, also when the requested list holds
\* a component tuple twice.
C16_OutputOrder ==
    status = "ok" =>
        /\ InOrderOf(dkeys.keep, Keys(New))
        /\ InOrderOf(dkeys.load, Keys(New))
        /\ InOrderOf(dkeys.clear, Keys(Old))
        /\ ~HasDuplicate(dkeys.keep)
        /\ ~HasDuplicate(dkeys.load)
        /\ ~HasDuplicate(dkeys.clear)
        /\ \A i, j \in 1..Len(New) :
               i < j =>
                   \/ CatalogIndex(New[i][1]) < CatalogIndex(New[j][1])
                   \/ /\ CatalogIndex(New[i][1]) = CatalogIndex(New[j][1])
                      /\ RequestIndex(New[i][1], req_items)
                             < RequestIndex(New[j][1], req_items)

\* a call with a component tuple twice in its list that cleared several keys
\* and loaded several keys, the key of that tuple among them
C16_Witness ==
    /\ status = "ok"
    /\ mFn0 \in DOMAIN req_items
    /\ HasDuplicate(req_items[mFn0].l)
    /\ Len(dkeys.clear) >= 2
    /\ Len(dkeys.load) >= 2
    /\ \E dkey \in Loaded : decomp(dkey)[1] = mFn0

\* the catalog as it is now: the keys and type tags of the entries, and
\* their defaults with the present contents of the list objects
CatalogNow ==
    [n \in 1..Len(data_items_def) |->
        <<data_items_def[n][1],
          <<IF n \in ListEntries THEN PyList(heap[DefObj(n)])
            ELSE data_items_def[n][2][1],
            data_items_def[n][2][2]>> >>]

\* C17: request_init gives the caller a mapping from every minimal key of
\* the catalog to its default, list defaults as copies; whatever the caller
\* appends to the lists it got and whatever request_files calls it makes,
\* the catalog keeps its keys, defaults and type tags in their order, and
\* request_init yields the original defaults again.
C17_DefaultsCopied ==
    /\ CatalogNow = data_items_def
    /\ u_pc = "init" => Deref(u_req, heap) = request_init
    /\ u_pc # "none" =>
           \A docc \in DOMAIN u_req :
               u_req[docc].t = "list" =>
                   u_req[docc].obj \notin {DefObj(n) : n \in ListEntries}

\* request_init was called again after the caller had filled the list of
\* the first mapping and had called request_files with it
C17_Witness ==
    /\ u_pc = "init"
    /\ status = "ok"
    /\ req_items[mFn0].l # <<>>
    /\ Deref(u_req, heap)[mFn0] = PyList(<<>>)

\* an instance after the calls with the arguments h, made on it alone under
\* environment e
RECURSIVE RunAlone(_, _)
RunAlone(h, e) ==
    IF Len(h) = 0 THEN Fresh(e)
    ELSE LET before == RunAlone(SubSeq(h, 1, Len(h) - 1), e)
             r == Resolved[h[Len(h)], e]
         IN  [req_data_items |-> r.items,
              _old_data_items |-> before.req_data_items,
              env |-> e,
              dkeys |-> IF r.ok THEN Plan(before.req_data_items, r.items)
                        ELSE NoPlan,
              status |-> IF r.ok THEN "ok" ELSE "error"]

\* the first instance as a record
First ==
    [req_data_items |-> req_data_items, _old_data_items |-> _old_data_items,
     env |-> env, dkeys |-> dkeys, status |-> status]

\* C18: however the request_files calls on two instances are interleaved,
\* and when an instance is constructed anew, each instance has the lists and
\* the current and prior resolution that its own calls alone produce; a call
\* on one instance changes nothing of the other.
C18_PerInstance ==
    /\ First = RunAlone(hist[1], env)
    /\ other = RunAlone(hist[2], other.env)

\* both instances have been called in turn, with different arguments, and
\* the last call on each cleared or kept keys of its own earlier call
C18_Witness ==
    /\ Len(hist[1]) = 2
    /\ Len(hist[2]) = 2
    /\ hist[1] # hist[2]
    /\ status = "ok"
    /\ other.status = "ok"
    /\ dkeys.keep # <<>>
    /\ other.dkeys.clear # <<>>

\* the keys of a mapping whose items are not derived-only
NonDerived(d) == {dkey \in KeySet(d) : Get(d, dkey)[5] # Some(TRUE)}

\* C19: a loader that starts with nothing and, after each call that returns,
\* drops the keys of clear and then takes in the keys of load, holds after
\* any sequence of returning calls, whatever their arguments and whatever
\* the environment was changed to between them, exactly the non-derived
\* keys of the current resolution; and every key of keep is derived or was
\* held by the loader before the call.
C19_ConsumerConsistency ==
    (clean /\ status = "ok") =>
        /\ {dkey \in loaded : dkey[1] # "z"} = NonDerived(New)
        /\ \A dkey \in Kept :
               \/ Get(New, dkey)[5] = Some(TRUE)
               \/ dkey \in loaded /\ dkey \notin Loaded /\ dkey \notin Cleared

\* after several returning calls and a change of the environment the loader
\* has dropped a key that is no longer asked for and has taken in again keys
\* whose location changed
C19_Witness ==
    /\ clean
    /\ status = "ok"
    /\ calls = "many"
    /\ Cleared \ KeySet(New) # {}
    /\ Cleared \cap Loaded # {}
    /\ loaded # {}

====
